---- MODULE Spec2Model ----
(***************************************************************************)
(* Model of the queuify engine (QueuifyEngine in src/package.json, lines   *)
(* 55-316) and of its persistence layer (DBActions in                      *)
(* src/src/helpers/db.ts).                                                 *)
(*                                                                         *)
(* One engine process talks to the store over one connection per queue.    *)
(* Every `await` on a store command is a suspension point: the command is  *)
(* appended to the queue's connection (inflight), the store executes the   *)
(* commands of one connection in the order they were sent, and the code    *)
(* that follows the await runs when the reply is handled.  EventEmitter's  *)
(* emit is synchronous, so a listener runs inside the step that emits.     *)
(* Workers of type SANDBOX run each job in a forked process (sandboxes);    *)
(* a second engine process on the same queue is the variable peer.         *)
(***************************************************************************)
EXTENDS Integers, Sequences, FiniteSets, TLC

\* ---------------------------------------------------------------- bounds
MaxJobs == 3
MaxWorkers == 2
MaxAddJob == 2
MaxBootJobs == 2

\* ------------------------------------------------------------- constants
Limit == 1
NoWorker == 0
NoJob == 0

QueueNames == {"q1", "q2"}
JobIds == 1..MaxJobs
WorkerIds == 1..MaxWorkers
Payloads == {"x", "y", "z"}
NoReason == "none"
Boom == "boom"
ListenerError == "listener"

PENDING == "PENDING"
RUNNING == "RUNNING"
STALLED == "STALLED"
COMPLETED == "COMPLETED"
FAILED == "FAILED"
QUEUIFY_JOB_STATUS == {PENDING, RUNNING, STALLED, COMPLETED, FAILED}

IDLE == "IDLE"
BUSY == "BUSY"

DEFAULT == "DEFAULT"
SANDBOX == "SANDBOX"
WORKER_TYPES == {DEFAULT, SANDBOX}
SpawnFailed == "Spawn Failed!"

VARIABLES
    queues,         \* engine.queues: queue name -> Queue Runtime State
    listeners,      \* queue names whose worker_add / pool listeners are attached
    nextWorkerId,   \* generateId(): next fresh worker id
    store,          \* the shared store: per queue, five lists and the job records
    inflight,       \* per queue connection: store commands sent, not yet replied
    execs,          \* local routine invocations started and not yet settled
    sandboxes,      \* forked sandbox processes, each with the phase of its exchange
    remainingJobs,  \* closure id -> remainingJobs of that onJobsProcess call
    nextCl,         \* next fresh closure id
    budget,         \* enqueue calls the producers may still make
    out,            \* what the last step showed: events emitted, error raised
    fetchLog,       \* per queue: ids popped by getJobs, in pop order
    delivered,      \* per queue and id: times the id was pushed to a local batch
    boot,           \* per queue: the store's content when the process started
    peer            \* a second engine process on queue q1: its position and what it holds

vars == <<queues, listeners, nextWorkerId, store, inflight, execs, sandboxes, remainingJobs,
          nextCl, budget, out, fetchLog, delivered, boot, peer>>

\* ------------------------------------------------------- store primitives
Remove1(s, x) ==
    IF \E i \in 1..Len(s) : s[i] = x
    THEN LET i == CHOOSE k \in 1..Len(s) : s[k] = x /\ \A m \in 1..(k - 1) : s[m] # x
         IN  SubSeq(s, 1, i - 1) \o SubSeq(s, i + 1, Len(s))
    ELSE s

Count(s, x) == Cardinality({i \in 1..Len(s) : s[i] = x})

Occurrences(st, j) ==
    Count(st.lists[PENDING], j) + Count(st.lists[RUNNING], j) + Count(st.lists[STALLED], j)
    + Count(st.lists[COMPLETED], j) + Count(st.lists[FAILED], j)

\* lpush: push at the head (LEFT)
LPush(st, list, j) == [st EXCEPT !.lists[list] = <<j>> \o @]

\* lrem key 1 value: remove the first occurrence from the head
LRem(st, list, j) == [st EXCEPT !.lists[list] = Remove1(@, j)]

\* hset key status value (an absent key is created)
HSetStatus(st, j, status) ==
    IF j \in DOMAIN st.jobs
    THEN [st EXCEPT !.jobs[j].status = status]
    ELSE [st EXCEPT !.jobs = @ @@ (j :> [status |-> status, data |-> "", failedReason |-> NoReason])]

HSetFailed(st, j, reason) ==
    IF j \in DOMAIN st.jobs
    THEN [st EXCEPT !.jobs[j].status = FAILED, !.jobs[j].failedReason = reason]
    ELSE [st EXCEPT !.jobs = @ @@ (j :> [status |-> FAILED, data |-> "", failedReason |-> reason])]

\* lmove src dst LEFT RIGHT: pop the head of src, append it to the tail of dst
LMoveCopy(st, src, dst) ==
    IF st.lists[src] = <<>> THEN st
    ELSE [st EXCEPT !.lists[dst] = Append(@, Head(st.lists[src]))]

LMove(st, src, dst) ==
    IF st.lists[src] = <<>> THEN st
    ELSE LET j == Head(st.lists[src])
         IN  [st EXCEPT !.lists[src] = Tail(@), !.lists[dst] = Append(@, j)]

LMoveResult(st, src) == IF st.lists[src] = <<>> THEN NoJob ELSE Head(st.lists[src])

\* ------------------------------------------------------------- DBActions
\* addJob's script: exists -> error reply; else hset record, lpush PENDING
DbAddJobRejects(st, j) == j \in DOMAIN st.jobs

DbAddJobOverwrite(st, j, d) ==
    [lists |-> [st.lists EXCEPT ![PENDING] = <<j>> \o @],
     jobs  |-> [k \in DOMAIN st.jobs \cup {j} |->
                  IF k = j THEN [status |-> PENDING, data |-> d, failedReason |-> NoReason]
                  ELSE st.jobs[k]]]

DbAddJob(st, j, d) ==
    IF DbAddJobRejects(st, j) THEN st
    ELSE [lists |-> [st.lists EXCEPT ![PENDING] = <<j>> \o @],
          jobs  |-> st.jobs @@ (j :> [status |-> PENDING, data |-> d, failedReason |-> NoReason])]

\* getJobs' status transaction: hset status RUNNING for every popped id
RECURSIVE DbSetRunning(_, _)
DbSetRunning(st, jobIds) ==
    IF jobIds = <<>> THEN st
    ELSE DbSetRunning(HSetStatus(st, Head(jobIds), RUNNING), Tail(jobIds))

DbCompleteJob(st, j) == LPush(LRem(HSetStatus(st, j, COMPLETED), RUNNING, j), COMPLETED, j)

DbFailJobKeepsRunning(st, j, reason) == LPush(HSetFailed(st, j, reason), FAILED, j)

DbFailJob(st, j, reason) == LPush(LRem(HSetFailed(st, j, reason), RUNNING, j), FAILED, j)

\* moveJobsBetweenLists' transaction: per id read by lrange, one lmove and one hset
RECURSIVE DbMoveJobsKeepStatus(_, _, _, _)
DbMoveJobsKeepStatus(st, from, to, jobRuns) ==
    IF jobRuns = <<>> THEN st
    ELSE DbMoveJobsKeepStatus(LMove(st, from, to), from, to, Tail(jobRuns))

\* lmove src dst LEFT LEFT
LMoveToHead(st, src, dst) ==
    IF st.lists[src] = <<>> THEN st
    ELSE LET j == Head(st.lists[src])
         IN  [st EXCEPT !.lists[src] = Tail(@), !.lists[dst] = <<j>> \o @]

RECURSIVE DbMoveJobsToHead(_, _, _, _)
DbMoveJobsToHead(st, from, to, jobRuns) ==
    IF jobRuns = <<>> THEN st
    ELSE DbMoveJobsToHead(HSetStatus(LMoveToHead(st, from, to), Head(jobRuns), to),
                          from, to, Tail(jobRuns))

RECURSIVE DbMoveJobs(_, _, _, _)
DbMoveJobs(st, from, to, jobRuns) ==
    IF jobRuns = <<>> THEN st
    ELSE DbMoveJobs(HSetStatus(LMove(st, from, to), Head(jobRuns), to), from, to, Tail(jobRuns))

\* ------------------------------------------------------- engine, helpers
EmptyMap == [x \in {} |-> x]

Cmd(op, w, from, jobs, data, cl) ==
    [op |-> op, w |-> w, from |-> from, jobs |-> jobs, data |-> data, cl |-> cl]

\* The engine-side state a handler reads and writes, with the events it emitted.
Cur ==
    [queues |-> queues, listeners |-> listeners, inflight |-> inflight, execs |-> execs,
     sandboxes |-> sandboxes, remainingJobs |-> remainingJobs, nextCl |-> nextCl, emits |-> <<>>, err |-> NoReason]

Send(E, q, cmd) == [E EXCEPT !.inflight[q] = Append(@, cmd)]

Emitted(E, event, q, arg) == [E EXCEPT !.emits = Append(@, <<event, q, arg>>)]

\* checkExisting(existing, message): raises when the entity exists
CheckExisting(existing) == existing

\* the for..of scan of onJobsProcess: Map iteration is in insertion order
FirstWorker(workers) ==
    IF DOMAIN workers # {}
    THEN CHOOSE w \in DOMAIN workers : \A v \in DOMAIN workers : w <= v
    ELSE NoWorker

FirstIdle(workers) ==
    IF \E w \in DOMAIN workers : workers[w].status = IDLE
    THEN CHOOSE w \in DOMAIN workers :
            /\ workers[w].status = IDLE
            /\ \A v \in DOMAIN workers : workers[v].status = IDLE => w <= v
    ELSE NoWorker

\* ------------------------------------------------------ engine, handlers
\* onJobsRequest up to its first await: getJobs sends the first lmove
OnJobsRequestPendingFirst(E, q, w) ==
    IF q \notin DOMAIN E.queues THEN E
    ELSE IF w \notin DOMAIN E.queues[q].workers THEN E
    ELSE IF E.queues[q].isStalledJobsProcessingComplete
         THEN Send(E, q, Cmd("lmove", w, STALLED, <<>>, "", 0))
         ELSE Send(E, q, Cmd("lmove", w, PENDING, <<>>, "", 0))

OnJobsRequest(E, q, w) ==
    IF q \notin DOMAIN E.queues THEN E
    ELSE IF w \notin DOMAIN E.queues[q].workers THEN E
    ELSE IF ~E.queues[q].isStalledJobsProcessingComplete
         THEN Send(E, q, Cmd("lmove", w, STALLED, <<>>, "", 0))
         ELSE Send(E, q, Cmd("lmove", w, PENDING, <<>>, "", 0))

EmitPoolRequest(E, q, w) ==
    LET E1 == Emitted(E, "job_pool_request", q, w)
    IN  IF q \in E1.listeners THEN OnJobsRequest(E1, q, w) ELSE E1

OnWorkerAdd(E, q, w) ==
    IF q \notin DOMAIN E.queues THEN E
    ELSE IF w \notin DOMAIN E.queues[q].workers THEN E
    ELSE EmitPoolRequest(E, q, w)

EmitWorkerAdd(E, q, w) ==
    LET E1 == Emitted(E, "worker_add", q, w)
    IN  IF q \in E1.listeners THEN OnWorkerAdd(E1, q, w) ELSE E1

\* the while loop of onJobsProcess pops the whole batch
DrainKeepsBatch(batch) == batch

Drain(batch) == <<>>

\* onJobsProcess has no await: it runs to the end inside the emit.  Every job of
\* the batch is handed to the routine; the invocations share one remainingJobs.
OnJobsProcess(E, q, w) ==
    IF q \notin DOMAIN E.queues THEN E
    ELSE IF w \notin DOMAIN E.queues[q].workers THEN E
    ELSE LET batch == E.queues[q].workers[w].jobs
         IN  IF batch = <<>>
             THEN [E EXCEPT !.queues[q].workers[w].status = IDLE,
                            !.queues[q].idleWorkerId = w]
             ELSE LET busy == [E.queues[q].workers EXCEPT ![w].status = BUSY,
                                                          ![w].jobs = Drain(batch)]
                      isSandbox == E.queues[q].workers[w].type = SANDBOX
                      E1 == [E EXCEPT !.queues[q].workers = busy,
                                      !.queues[q].idleWorkerId = FirstIdle(busy),
                                      !.remainingJobs = @ @@ (E.nextCl :> Len(batch)),
                                      !.nextCl = @ + 1]
                  IN  IF isSandbox
                      THEN [E1 EXCEPT !.sandboxes = @ \cup
                              {[q |-> q, w |-> w, job |-> batch[i], cl |-> E.nextCl,
                                phase |-> "forked"] : i \in 1..Len(batch)}]
                      ELSE [E1 EXCEPT !.execs = @ \cup
                              {[q |-> q, w |-> w, job |-> batch[i], cl |-> E.nextCl]
                                 : i \in 1..Len(batch)}]

EmitPoolProcess(E, q, w) ==
    LET E1 == Emitted(E, "job_pool_process", q, w)
    IN  IF q \in E1.listeners THEN OnJobsProcess(E1, q, w) ELSE E1

\* onJobsRequest after getJobs returned a non-empty result
OnJobsFetched(E, q, w, jobs) ==
    EmitPoolProcess([E EXCEPT !.queues[q].workers[w].jobs = @ \o jobs], q, w)

\* onFinish of the onJobsProcess call with closure cl
OnFinish(E, q, w, cl) ==
    LET left == E.remainingJobs[cl] - 1
        E1 == [E EXCEPT !.remainingJobs[cl] = left]
    IN  IF left = 0
        THEN EmitPoolRequest([E1 EXCEPT !.queues[q].workers[w].status = IDLE,
                                        !.queues[q].idleWorkerId = w], q, w)
        ELSE E1

\* the sandbox process of the exchange a command belongs to
ProcessOf(E, q, cmd) ==
    {p \in E.sandboxes : p.q = q /\ p.w = cmd.w /\ p.job = cmd.jobs[1] /\ p.cl = cmd.cl}

\* onFinish(sandboxedProcess) of a message or error handler: onFinish, then
\* process.kill()
OnSandboxFinish(E, q, cmd) ==
    LET E1 == OnFinish(E, q, cmd.w, cmd.cl)
        killed(p) == [p EXCEPT !.phase = IF p.phase = "messaged" THEN "killed" ELSE "dead"]
    IN  [E1 EXCEPT !.sandboxes = (@ \ ProcessOf(E, q, cmd))
                                 \cup {killed(p) : p \in ProcessOf(E, q, cmd)}]

\* start(queue) on the queue map: the new map, or the error it raises
StartError(qs, q, hasDb) ==
    IF ~hasDb THEN "QueueDbRequired"
    ELSE IF CheckExisting(q \in DOMAIN qs) THEN "AlreadyExists"
    ELSE NoReason

NewQueueState ==
    [workers |-> EmptyMap, idleWorkerId |-> NoWorker, isStalledJobsProcessingComplete |-> FALSE]

StartQueuesSetFirst(qs, q, hasDb) ==
    IF ~hasDb THEN qs
    ELSE [n \in DOMAIN qs \cup {q} |-> IF n = q THEN NewQueueState ELSE qs[n]]

StartQueues(qs, q, hasDb) ==
    IF StartError(qs, q, hasDb) # NoReason THEN qs
    ELSE qs @@ (q :> NewQueueState)

\* addJob up to its await
OnAddJobUnguarded(E, q, j, d) == Send(E, q, Cmd("eval", NoWorker, "", <<j>>, d, 0))

OnAddJob(E, q, j, d) ==
    IF q \notin DOMAIN E.queues THEN E
    ELSE Send(E, q, Cmd("eval", NoWorker, "", <<j>>, d, 0))

\* addJob after the script's reply
OnAddJobReply(E, q, rejected) ==
    IF rejected THEN [E EXCEPT !.err = "JobAlreadyExists"]
    ELSE LET E1 == Emitted(E, "job_add", q, q)
         IN  IF E1.queues[q].idleWorkerId # NoWorker
             THEN EmitPoolRequest(E1, q, E1.queues[q].idleWorkerId)
             ELSE E1

\* addWorker up to its await (first worker) or to its end (later workers)
OnAddWorker(E, q, w, type) ==
    IF q \notin DOMAIN E.queues THEN E ELSE
    LET hasWorkers == DOMAIN E.queues[q].workers # {}
        E1 == [E EXCEPT !.queues[q].workers =
                          @ @@ (w :> [jobs |-> <<>>, status |-> IDLE, type |-> type])]
    IN  IF ~hasWorkers
        THEN Send(E1, q, Cmd("lrange", w, RUNNING, <<>>, "", 0))
        ELSE EmitWorkerAdd(E1, q, w)

\* startWorkerPool / startWorkers / addWorker after moveJobsBetweenLists returned
OnWorkersStarted(E, q, w, stalledJobs) ==
    LET E1 == IF stalledJobs = <<>>
              THEN [E EXCEPT !.queues[q].isStalledJobsProcessingComplete = TRUE]
              ELSE E
        E2 == [E1 EXCEPT !.listeners = @ \cup {q}]
    IN  EmitWorkerAdd(E2, q, w)

\* getJobs after one lmove replied, and onJobsRequest when getJobs returns empty
OnLmoveReply(E, q, cmd, jobId) ==
    LET jobIds == IF jobId = NoJob THEN cmd.jobs ELSE Append(cmd.jobs, jobId)
    IN  IF jobId # NoJob /\ Len(jobIds) < Limit
        THEN Send(E, q, Cmd("lmove", cmd.w, cmd.from, jobIds, "", 0))
        ELSE IF jobIds # <<>>
        THEN Send(E, q, Cmd("pipelines", cmd.w, cmd.from, jobIds, "", 0))
        ELSE IF cmd.from = STALLED
        THEN Send([E EXCEPT !.queues[q].isStalledJobsProcessingComplete = TRUE], q,
                  Cmd("lmove", cmd.w, PENDING, <<>>, "", 0))
        ELSE E

\* onComplete / onFailed after the store replied, and what follows them: the
\* .then / .catch / .finally chain of a local invocation, or the try / catch /
\* finally of a sandbox handler (which logs a listener's error)
OnCompleted(E, q, cmd, throws) ==
    LET E1 == Emitted(E, "job_complete", q, cmd.jobs[1])
    IN  IF E.queues[q].workers[cmd.w].type = SANDBOX
        THEN OnSandboxFinish(E1, q, cmd)
        ELSE IF throws
        THEN Send(E1, q, Cmd("fail", cmd.w, "", cmd.jobs, ListenerError, cmd.cl))
        ELSE OnFinish(E1, q, cmd.w, cmd.cl)

OnFailed(E, q, cmd) ==
    LET E1 == Emitted(E, "job_fail", q, cmd.jobs[1])
    IN  IF E.queues[q].workers[cmd.w].type = SANDBOX
        THEN OnSandboxFinish(E1, q, cmd)
        ELSE OnFinish(E1, q, cmd.w, cmd.cl)

\* the 'message' handler of a sandbox process up to its await
OnSandboxMessage(E, p, ok) ==
    LET E1 == [E EXCEPT !.sandboxes = (@ \ {p}) \cup {[p EXCEPT !.phase = "messaged"]}]
    IN  Send(E1, p.q, IF ok THEN Cmd("complete", p.w, "", <<p.job>>, "", p.cl)
                      ELSE Cmd("fail", p.w, "", <<p.job>>, Boom, p.cl))

\* the 'error' handler of a sandbox process up to its await
OnSandboxError(E, p) ==
    LET E1 == [E EXCEPT !.sandboxes = (@ \ {p}) \cup {[p EXCEPT !.phase = "errored"]}]
    IN  Send(E1, p.q, Cmd("fail", p.w, "", <<p.job>>, SpawnFailed, p.cl))

\* --------------------------------------------------------------- actions
Shown(E, op, q, hasDb) ==
    [op |-> op, q |-> q, hasDb |-> hasDb, emits |-> E.emits, err |-> E.err]

Commit(E, op, q) ==
    /\ queues' = E.queues
    /\ listeners' = E.listeners
    /\ inflight' = E.inflight
    /\ execs' = E.execs
    /\ sandboxes' = E.sandboxes
    /\ remainingJobs' = E.remainingJobs
    /\ nextCl' = E.nextCl
    /\ out' = Shown(E, op, q, TRUE)
    /\ peer' = peer

Popped(q) == [Cur EXCEPT !.inflight[q] = Tail(@)]

HeadIs(q, op) == inflight[q] # <<>> /\ Head(inflight[q]).op = op

Start(q, hasDb) ==
    LET err == StartError(queues, q, hasDb)
        E   == [Cur EXCEPT !.queues = StartQueues(queues, q, hasDb), !.err = err]
    IN  /\ queues' = E.queues
        /\ out' = Shown(IF err = NoReason THEN Emitted(E, "queue_add", q, q) ELSE E,
                        "start", q, hasDb)
        /\ UNCHANGED <<listeners, inflight, execs, sandboxes, remainingJobs, nextCl,
                       nextWorkerId, store, budget, fetchLog, delivered, boot, peer>>

\* Ids and payloads the producers use.  Ids not yet used are interchangeable, so a
\* call names a used id (a duplicate) or the smallest unused one; the k-th call
\* carries its own payload, so a duplicate never repeats the stored payload.
UsedIds(q) ==
    DOMAIN store[q].jobs
    \cup {inflight[q][i].jobs[1] : i \in {k \in 1..Len(inflight[q]) : inflight[q][k].op = "eval"}}

CallIds(q) == {j \in JobIds : \A i \in 1..(j - 1) : i \in UsedIds(q)}

CallPayload == IF budget = MaxAddJob THEN "x" ELSE "y"

AddJob(q, j, d) ==
    /\ budget > 0
    /\ j \in CallIds(q)
    /\ d = CallPayload
    /\ Commit(OnAddJob(Cur, q, j, d), "addJob", q)
    /\ budget' = IF q \in DOMAIN queues THEN budget - 1 ELSE budget
    /\ UNCHANGED <<nextWorkerId, store, fetchLog, delivered, boot>>

EvalReply(q) ==
    /\ HeadIs(q, "eval")
    /\ LET cmd == Head(inflight[q])
           rejected == DbAddJobRejects(store[q], cmd.jobs[1])
       IN  /\ store' = [store EXCEPT ![q] = DbAddJob(@, cmd.jobs[1], cmd.data)]
           /\ Commit(OnAddJobReply(Popped(q), q, rejected), "addJobReply", q)
    /\ UNCHANGED <<nextWorkerId, budget, fetchLog, delivered, boot>>

AddWorker(q, type) ==
    /\ nextWorkerId <= MaxWorkers
    /\ Commit(OnAddWorker(Cur, q, nextWorkerId, type), "addWorker", q)
    /\ nextWorkerId' = IF q \in DOMAIN queues THEN nextWorkerId + 1 ELSE nextWorkerId
    /\ UNCHANGED <<store, budget, fetchLog, delivered, boot>>

\* moveJobsBetweenLists: lrange replied, the transaction is sent
LrangeReply(q) ==
    /\ HeadIs(q, "lrange")
    /\ LET cmd == Head(inflight[q])
       IN  Commit(Send(Popped(q), q,
                       Cmd("moveExec", cmd.w, cmd.from, store[q].lists[cmd.from], "", 0)),
                  "lrangeReply", q)
    /\ UNCHANGED <<nextWorkerId, store, budget, fetchLog, delivered, boot>>

MoveExecReply(q) ==
    /\ HeadIs(q, "moveExec")
    /\ LET cmd == Head(inflight[q])
       IN  /\ store' = [store EXCEPT ![q] = DbMoveJobs(@, cmd.from, STALLED, cmd.jobs)]
           /\ Commit(OnWorkersStarted(Popped(q), q, cmd.w, cmd.jobs), "startWorkers", q)
    /\ UNCHANGED <<nextWorkerId, budget, fetchLog, delivered, boot>>

LmoveReply(q) ==
    /\ HeadIs(q, "lmove")
    /\ LET cmd == Head(inflight[q])
           jobId == LMoveResult(store[q], cmd.from)
       IN  /\ store' = [store EXCEPT ![q] = LMove(@, cmd.from, RUNNING)]
           /\ fetchLog' = IF jobId = NoJob THEN fetchLog
                          ELSE [fetchLog EXCEPT ![q] = Append(@, jobId)]
           /\ Commit(OnLmoveReply(Popped(q), q, cmd, jobId), "getJobs", q)
    /\ UNCHANGED <<nextWorkerId, budget, delivered, boot>>

PipelinesReply(q) ==
    /\ HeadIs(q, "pipelines")
    /\ LET cmd == Head(inflight[q])
       IN  /\ store' = [store EXCEPT ![q] = DbSetRunning(@, cmd.jobs)]
           /\ delivered' = [delivered EXCEPT ![q] =
                              [j \in JobIds |-> @[j] + Count(cmd.jobs, j)]]
           /\ Commit(OnJobsFetched(Popped(q), q, cmd.w, cmd.jobs), "onJobsRequest", q)
    /\ UNCHANGED <<nextWorkerId, budget, fetchLog, boot>>

\* the worker routine of one invocation resolves (ok) or rejects
RoutineSettle(e, ok) ==
    /\ e \in execs
    /\ LET E == [Cur EXCEPT !.execs = @ \ {e}]
       IN  Commit(Send(E, e.q, IF ok THEN Cmd("complete", e.w, "", <<e.job>>, "", e.cl)
                                ELSE Cmd("fail", e.w, "", <<e.job>>, Boom, e.cl)),
                  "routine", e.q)
    /\ UNCHANGED <<nextWorkerId, store, budget, fetchLog, delivered, boot>>

CompleteReply(q, throws) ==
    /\ HeadIs(q, "complete")
    /\ LET cmd == Head(inflight[q])
       IN  /\ store' = [store EXCEPT ![q] = DbCompleteJob(@, cmd.jobs[1])]
           /\ Commit(OnCompleted(Popped(q), q, cmd, throws), "onComplete", q)
    /\ UNCHANGED <<nextWorkerId, budget, fetchLog, delivered, boot>>

FailReply(q) ==
    /\ HeadIs(q, "fail")
    /\ LET cmd == Head(inflight[q])
       IN  /\ store' = [store EXCEPT ![q] = DbFailJob(@, cmd.jobs[1], cmd.data)]
           /\ Commit(OnFailed(Popped(q), q, cmd), "onFailed", q)
    /\ UNCHANGED <<nextWorkerId, budget, fetchLog, delivered, boot>>

\* the child of a sandbox process posts its result: the 'message' event
SandboxMessage(p, ok) ==
    /\ p \in sandboxes
    /\ p.phase = "forked"
    /\ Commit(OnSandboxMessage(Cur, p, ok), "sandboxMessage", p.q)
    /\ UNCHANGED <<nextWorkerId, store, budget, fetchLog, delivered, boot>>

\* the 'error' event of a sandbox process: the process could not be spawned or sent
\* to (no message will come), or it could not be killed (after its message)
SandboxError(p) ==
    /\ p \in sandboxes
    /\ p.phase \in {"forked", "killed"}
    /\ Commit(OnSandboxError(Cur, p), "sandboxError", p.q)
    /\ UNCHANGED <<nextWorkerId, store, budget, fetchLog, delivered, boot>>

\* ----------------------------------------------- a second engine process
\* Another process runs the same engine on queue q1 of the same store, over its own
\* connection: it registers one worker (startup move, then fetch, run, persist,
\* fetch again).  peer.pc is the command it awaits, or "run" while its routine runs.
PeerFetch(from) == [pc |-> "lmove", from |-> from, jobs |-> <<>>, job |-> NoJob]

\* addWorker of the first worker: moveJobsBetweenLists sends lrange
PeerAddWorker(q) ==
    /\ peer.pc = "off"
    /\ peer' = [peer EXCEPT !.pc = "lrange"]
    /\ UNCHANGED <<queues, listeners, nextWorkerId, store, inflight, execs, sandboxes,
                   remainingJobs, nextCl, budget, out, fetchLog, delivered, boot>>

PeerLrangeReply(q) ==
    /\ peer.pc = "lrange"
    /\ peer' = [peer EXCEPT !.pc = "moveExec", !.jobs = store[q].lists[RUNNING]]
    /\ UNCHANGED <<queues, listeners, nextWorkerId, store, inflight, execs, sandboxes,
                   remainingJobs, nextCl, budget, out, fetchLog, delivered, boot>>

\* the move's transaction replied: startWorkerPool sets the flag or not, the
\* listeners are attached, worker_add leads to the worker's first fetch
PeerMoveExecReply(q) ==
    /\ peer.pc = "moveExec"
    /\ store' = [store EXCEPT ![q] = DbMoveJobs(@, RUNNING, STALLED, peer.jobs)]
    /\ peer' = PeerFetch(IF peer.jobs = <<>> THEN PENDING ELSE STALLED)
    /\ UNCHANGED <<queues, listeners, nextWorkerId, inflight, execs, sandboxes,
                   remainingJobs, nextCl, budget, out, fetchLog, delivered, boot>>

PeerLmoveReply(q) ==
    /\ peer.pc = "lmove"
    /\ LET jobId == LMoveResult(store[q], peer.from)
       IN  /\ store' = [store EXCEPT ![q] = LMove(@, peer.from, RUNNING)]
           /\ peer' = IF jobId # NoJob
                      THEN [peer EXCEPT !.pc = "pipelines", !.job = jobId]
                      ELSE IF peer.from = STALLED THEN PeerFetch(PENDING)
                      ELSE [peer EXCEPT !.pc = "idle"]
    /\ UNCHANGED <<queues, listeners, nextWorkerId, inflight, execs, sandboxes,
                   remainingJobs, nextCl, budget, out, fetchLog, delivered, boot>>

PeerPipelinesReply(q) ==
    /\ peer.pc = "pipelines"
    /\ store' = [store EXCEPT ![q] = DbSetRunning(@, <<peer.job>>)]
    /\ peer' = [peer EXCEPT !.pc = "run"]
    /\ UNCHANGED <<queues, listeners, nextWorkerId, inflight, execs, sandboxes,
                   remainingJobs, nextCl, budget, out, fetchLog, delivered, boot>>

PeerRoutineSettle(ok) ==
    /\ peer.pc = "run"
    /\ peer' = [peer EXCEPT !.pc = IF ok THEN "complete" ELSE "fail"]
    /\ UNCHANGED <<queues, listeners, nextWorkerId, store, inflight, execs, sandboxes,
                   remainingJobs, nextCl, budget, out, fetchLog, delivered, boot>>

\* completeJob / failJob replied: onFinish emits the pool-request, the next fetch
PeerPersistReply(q) ==
    /\ peer.pc \in {"complete", "fail"}
    /\ store' = [store EXCEPT ![q] = IF peer.pc = "complete" THEN DbCompleteJob(@, peer.job)
                                     ELSE DbFailJob(@, peer.job, Boom)]
    /\ peer' = PeerFetch(peer.from)
    /\ UNCHANGED <<queues, listeners, nextWorkerId, inflight, execs, sandboxes,
                   remainingJobs, nextCl, budget, out, fetchLog, delivered, boot>>

\* ------------------------------------------------------------------ Init
PeerOff == [pc |-> "off", from |-> "", jobs |-> <<>>, job |-> NoJob]

EmptyLists == [s \in QUEUIFY_JOB_STATUS |-> <<>>]

EmptyStore == [lists |-> EmptyLists, jobs |-> EmptyMap]

Range(lo, n) == [i \in 1..n |-> lo + i]

\* What a crashed process leaves behind: nR ids in RUNNING, nS in STALLED, nP in PENDING
BootStore(nR, nS, nP) ==
    [lists |-> [EmptyLists EXCEPT ![RUNNING] = Range(0, nR), ![STALLED] = Range(nR, nS),
                                  ![PENDING] = Range(nR + nS, nP)],
     jobs  |-> [j \in 1..(nR + nS + nP) |->
                  [status |-> IF j <= nR THEN RUNNING ELSE IF j <= nR + nS THEN STALLED
                              ELSE PENDING,
                   data |-> "z", failedReason |-> NoReason]]]

BootStores(n) ==
    {BootStore(c[1], c[2], c[3]) :
        c \in {d \in (0..n) \X (0..n) \X (0..n) :
                 d[1] + d[2] + d[3] <= n /\ d[1] + d[2] + d[3] <= MaxJobs}}

\* The engine after construction, with a store some earlier process may have left
Boot(stores, calls) ==
    /\ listeners = {}
    /\ nextWorkerId = 1
    /\ inflight = [q \in QueueNames |-> <<>>]
    /\ execs = {}
    /\ sandboxes = {}
    /\ peer = PeerOff
    /\ remainingJobs = EmptyMap
    /\ nextCl = 1
    /\ out = [op |-> "constructor", q |-> "", hasDb |-> TRUE, emits |-> <<>>, err |-> NoReason]
    /\ fetchLog = [q \in QueueNames |-> <<>>]
    /\ delivered = [q \in QueueNames |-> [j \in JobIds |-> 0]]
    /\ \E b \in stores : store = [q \in QueueNames |-> IF q = "q1" THEN b ELSE EmptyStore]
    /\ boot = store
    /\ budget = calls

\* The whole public surface, on both queue names
Init == queues = EmptyMap /\ Boot(BootStores(MaxBootJobs - 1), MaxAddJob - 1)

Calls(Q, T) ==
    \/ \E q \in Q, j \in JobIds, d \in Payloads : AddJob(q, j, d)
    \/ \E q \in Q, type \in T : AddWorker(q, type)

Replies(Q) ==
    \/ \E q \in Q : EvalReply(q)
    \/ \E q \in Q : LrangeReply(q)
    \/ \E q \in Q : MoveExecReply(q)
    \/ \E q \in Q : LmoveReply(q)
    \/ \E q \in Q : PipelinesReply(q)
    \/ \E q \in Q, throws \in BOOLEAN : CompleteReply(q, throws)
    \/ \E q \in Q : FailReply(q)

Settles == \E e \in execs, ok \in BOOLEAN : RoutineSettle(e, ok)

Next ==
    \/ \E q \in QueueNames, hasDb \in BOOLEAN : Start(q, hasDb)
    \/ Calls(QueueNames, {DEFAULT})
    \/ Replies(QueueNames)
    \/ Settles

Spec == Init /\ [][Next]_vars

\* One registered queue, its producers and its workers
PoolQueues == {"q1"}

PoolInit == queues = ("q1" :> NewQueueState) /\ Boot(BootStores(MaxBootJobs), MaxAddJob)

PoolNext == Calls(PoolQueues, {DEFAULT}) \/ Replies(PoolQueues) \/ Settles

PoolSpec == PoolInit /\ [][PoolNext]_vars

\* The same under the scheduling the event loop gives: every reply is handled, and
\* every routine settles (the routines are assumed to terminate)
LiveInit == queues = ("q1" :> NewQueueState) /\ Boot(BootStores(MaxBootJobs - 1), MaxAddJob - 1)

FairSpec ==
    /\ LiveInit
    /\ [][PoolNext]_vars
    /\ WF_vars(Replies(PoolQueues))
    /\ WF_vars(Settles)

\* One registered queue whose workers run their jobs in sandbox processes
SandboxEvents ==
    \/ \E p \in sandboxes, ok \in BOOLEAN : SandboxMessage(p, ok)
    \/ \E p \in sandboxes : SandboxError(p)

SandboxNext == Calls(PoolQueues, {SANDBOX}) \/ Replies(PoolQueues) \/ SandboxEvents

SandboxSpec == LiveInit /\ [][SandboxNext]_vars

\* Two engine processes on the one queue
PeerNext ==
    \/ PeerAddWorker("q1")
    \/ PeerLrangeReply("q1")
    \/ PeerMoveExecReply("q1")
    \/ PeerLmoveReply("q1")
    \/ PeerPipelinesReply("q1")
    \/ \E ok \in BOOLEAN : PeerRoutineSettle(ok)
    \/ PeerPersistReply("q1")

TwoNext == PoolNext \/ PeerNext

TwoSpec == LiveInit /\ [][TwoNext]_vars

\* ---------------------------------------------------------------- claims
Q1 == "q1"

InList(q, list, j) == Count(store[q].lists[list], j) > 0

Terminal(q, j) == InList(q, COMPLETED, j) \/ InList(q, FAILED, j)

Workers(q) == IF q \in DOMAIN queues THEN queues[q].workers ELSE EmptyMap

\* the step handles the reply to the script of an enqueue of q
IsAddJobReply(q) == HeadIs(q, "eval") /\ out'.op = "addJobReply" /\ out'.q = q

\* C1: an enqueue of an id that has a record fails with JobAlreadyExists and changes
\* neither the store nor the engine and emits nothing; an enqueue of an id without a
\* record creates the one record and the one list entry (PENDING) of that id; a
\* record, once written, stays.
C1_EnqueueOnce ==
    [][\A q \in QueueNames :
         /\ DOMAIN store[q].jobs \subseteq DOMAIN store'[q].jobs
         /\ IsAddJobReply(q) =>
              LET cmd == Head(inflight[q])
                  j == cmd.jobs[1]
              IN  IF j \in DOMAIN store[q].jobs
                  THEN /\ out'.err = "JobAlreadyExists"
                       /\ out'.emits = <<>>
                       /\ store' = store
                       /\ queues' = queues /\ listeners' = listeners
                       /\ execs' = execs /\ remainingJobs' = remainingJobs
                       /\ inflight'[q] = Tail(inflight[q])
                  ELSE /\ out'.err = NoReason
                       /\ Occurrences(store[q], j) = 0
                       /\ Occurrences(store'[q], j) = 1
                       /\ store'[q].lists[PENDING] = <<j>> \o store[q].lists[PENDING]
                       /\ store'[q].jobs[j] =
                            [status |-> PENDING, data |-> cmd.data, failedReason |-> NoReason]
      ]_vars

\* a second enqueue of an id the first call wrote was rejected while a pool-request
\* would have had a target
C1_Witness ==
    /\ out.op = "addJobReply" /\ out.err = "JobAlreadyExists"
    /\ queues[Q1].idleWorkerId # NoWorker
    /\ \E j \in DOMAIN store[Q1].jobs : store[Q1].jobs[j].data = "x"

\* C3: no id is in COMPLETED and in FAILED, and no id is twice in a terminal list.
C3_OneTerminalList ==
    \A q \in QueueNames, j \in JobIds :
        /\ ~(InList(q, COMPLETED, j) /\ InList(q, FAILED, j))
        /\ Count(store[q].lists[COMPLETED], j) <= 1
        /\ Count(store[q].lists[FAILED], j) <= 1

\* C4: no id is handed to two fetches: it is popped once and pushed to one batch once.
C4_AtomicClaim ==
    \A q \in QueueNames, j \in JobIds :
        /\ delivered[q][j] <= 1
        /\ Count(fetchLog[q], j) <= 1
        /\ Cardinality({e \in execs : e.q = q /\ e.job = j}) <= 1

\* two workers each run a job they fetched
C4_Witness ==
    \E e1, e2 \in execs : e1.q = Q1 /\ e2.q = Q1 /\ e1.w # e2.w /\ e1.job # e2.job

\* C7: between handler steps an idle worker has an empty local batch.
C7_IdleHasEmptyBatch ==
    \A q \in DOMAIN queues : \A w \in DOMAIN queues[q].workers :
        queues[q].workers[w].status = IDLE => queues[q].workers[w].jobs = <<>>

\* a worker that was handed a job is idle again
C7_Witness ==
    \E w \in DOMAIN Workers(Q1) :
        /\ queues[Q1].workers[w].status = IDLE
        /\ queues[Q1].idleWorkerId = w
        /\ \E j \in JobIds : delivered[Q1][j] = 1 /\ Terminal(Q1, j)

\* C8: a worker with status idle has no started invocation that has not settled.
C8_IdleRunsNothing ==
    \A q \in DOMAIN queues : \A w \in DOMAIN queues[q].workers :
        queues[q].workers[w].status = IDLE => ~(\E e \in execs : e.q = q /\ e.w = w)

Elems(seq) == {seq[i] : i \in 1..Len(seq)}

\* the ids a crash left in RUNNING of q, and the ids a crash left anywhere but PENDING
BootRunning(q) == Elems(boot[q].lists[RUNNING])

BootRecovered(q) == BootRunning(q) \cup Elems(boot[q].lists[STALLED])

\* C2: once the queue has a worker, every job this process enqueued reaches
\* COMPLETED or FAILED.
C2_EnqueuedJobsTerminate ==
    \A j \in JobIds :
        (j \in DOMAIN store[Q1].jobs /\ j \notin DOMAIN boot[Q1].jobs /\ Workers(Q1) # EmptyMap)
            ~> Terminal(Q1, j)

\* C5: when the queue starts with N ids in RUNNING (none in STALLED), the first N
\* ids fetched are N different ids of those, and an id that was not recovered is
\* fetched only when the STALLED list is empty.
C5_StalledFirst ==
    \A q \in QueueNames :
        boot[q].lists[STALLED] = <<>> =>
            /\ \A i \in 1..Len(fetchLog[q]) :
                   i <= Len(boot[q].lists[RUNNING]) =>
                       /\ fetchLog[q][i] \in BootRunning(q)
                       /\ \A k \in 1..(i - 1) : fetchLog[q][k] # fetchLog[q][i]
            /\ (\E j \in Elems(fetchLog[q]) : j \notin BootRunning(q)) =>
                   /\ store[q].lists[STALLED] = <<>>
                   /\ BootRunning(q) \subseteq Elems(fetchLog[q])

\* one recovered id and then one pending id were fetched, by different workers
C5_Witness ==
    /\ Len(boot[Q1].lists[RUNNING]) = 1
    /\ Len(boot[Q1].lists[PENDING]) = 1
    /\ Len(fetchLog[Q1]) = 2
    /\ \E e1, e2 \in execs : e1.w # e2.w

\* C6: the first registration of a worker moves every id of RUNNING to STALLED,
\* record status included; each such id is then fetched, once, and before any id
\* that was not recovered.
C6_StalledRetriedOnce ==
    /\ [][\A q \in QueueNames :
            (HeadIs(q, "moveExec") /\ out'.op = "startWorkers" /\ out'.q = q) =>
                /\ store'[q].lists[RUNNING] = <<>>
                /\ \A j \in BootRunning(q) :
                       /\ Count(store'[q].lists[STALLED], j) = 1
                       /\ store'[q].jobs[j].status = STALLED
         ]_vars
    /\ [](\A q \in QueueNames : \A j \in BootRunning(q) :
            /\ delivered[q][j] <= 1
            /\ Count(fetchLog[q], j) <= 1
            /\ (\E k \in Elems(fetchLog[q]) : k \notin BootRecovered(q)) =>
                   j \in Elems(fetchLog[q]))
    /\ \A j \in JobIds :
           (j \in BootRunning(Q1) /\ Workers(Q1) # EmptyMap) ~> (delivered[Q1][j] = 1)

\* a recovered id was handed to a worker while an enqueued id waits in PENDING
C6_Witness ==
    \E j \in BootRunning(Q1) :
        /\ delivered[Q1][j] = 1
        /\ store[Q1].lists[PENDING] # <<>>
        /\ store[Q1].lists[STALLED] = <<>>

\* C9: start fails, changes no entry of the queue map and emits nothing when the
\* name is registered or the queue has no store handle; otherwise it adds the one
\* entry, with no workers, and emits queue_add.
C9_RegisterQueue ==
    [][out'.op = "start" =>
         LET q == out'.q
         IN  IF ~out'.hasDb \/ q \in DOMAIN queues
             THEN /\ out'.err # NoReason
                  /\ (out'.hasDb => out'.err = "AlreadyExists")
                  /\ queues' = queues
                  /\ out'.emits = <<>>
             ELSE /\ out'.err = NoReason
                  /\ DOMAIN queues' = DOMAIN queues \cup {q}
                  /\ \A n \in DOMAIN queues : queues'[n] = queues[n]
                  /\ queues'[q].workers = EmptyMap
                  /\ queues'[q].idleWorkerId = NoWorker
                  /\ ~queues'[q].isStalledJobsProcessingComplete
                  /\ out'.emits = <<<<"queue_add", q, q>>>>
      ]_vars

\* a second start of a queue that has a worker and an idle cursor was refused
C9_Witness ==
    /\ out.op = "start" /\ out.err = "AlreadyExists"
    /\ out.q \in DOMAIN queues
    /\ queues[out.q].idleWorkerId # NoWorker

\* C10: addJob and addWorker on a name that is not registered raise nothing, send
\* nothing to the store, emit nothing and leave the engine as it was.
C10_UnknownQueueNoOp ==
    [][(out'.op \in {"addJob", "addWorker"} /\ out'.q \notin DOMAIN queues) =>
         /\ out'.err = NoReason
         /\ out'.emits = <<>>
         /\ UNCHANGED <<queues, listeners, nextWorkerId, store, inflight, execs,
                        remainingJobs, nextCl>>
      ]_vars

\* a call named an unregistered queue while the other queue had a worker at work
C10_Witness ==
    /\ out.op \in {"addJob", "addWorker"}
    /\ out.q \notin DOMAIN queues
    /\ \E q \in DOMAIN queues : queues[q].workers # EmptyMap /\ execs # {}

\* the step handles the reply to the failJob of a routine that rejected
IsRoutineFailReply(q) ==
    HeadIs(q, "fail") /\ Head(inflight[q]).data = Boom /\ out'.op = "onFailed" /\ out'.q = q

\* C11: when a routine rejects, failJob leaves the record FAILED with the error's
\* message as failure reason and the id in FAILED and not in RUNNING; no step of an
\* enqueue raises that error; an id in FAILED is in no list a fetch pops, runs in no
\* invocation, and is neither popped nor handed to a batch again.
C11_FailedIsFinal ==
    /\ [][\A q \in QueueNames :
            /\ IsRoutineFailReply(q) =>
                 LET j == Head(inflight[q]).jobs[1]
                 IN  /\ store'[q].jobs[j].status = FAILED
                     /\ store'[q].jobs[j].failedReason = Boom
                     /\ Count(store'[q].lists[FAILED], j) = 1
                     /\ Count(store'[q].lists[RUNNING], j) = 0
                     /\ out'.err = NoReason
                     /\ out'.emits[1] = <<"job_fail", q, j>>
            /\ out'.op \in {"addJob", "addJobReply"} => out'.err \in {NoReason, "JobAlreadyExists"}
            /\ \A j \in JobIds : InList(q, FAILED, j) =>
                 /\ Count(store'[q].lists[FAILED], j) > 0
                 /\ Count(fetchLog'[q], j) = Count(fetchLog[q], j)
                 /\ delivered'[q][j] = delivered[q][j]
         ]_vars
    /\ [](\A q \in QueueNames, j \in JobIds : InList(q, FAILED, j) =>
            /\ ~InList(q, PENDING, j) /\ ~InList(q, STALLED, j) /\ ~InList(q, RUNNING, j)
            /\ store[q].jobs[j].status = FAILED
            /\ ~(\E e \in execs : e.q = q /\ e.job = j))

\* a routine rejected a job, and another job was fetched after that
C11_Witness ==
    \E j \in JobIds :
        /\ InList(Q1, FAILED, j)
        /\ store[Q1].jobs[j].failedReason = Boom
        /\ \E i \in 1..Len(fetchLog[Q1]) :
               /\ fetchLog[Q1][i] = j
               /\ i < Len(fetchLog[Q1])
        /\ out.op = "getJobs"

\* C12: in every state of the store between two store commands, every id that is in
\* a status list has a record whose status is the name of that list (so the id is
\* in one list only).
C12_StatusMatchesList ==
    \A q \in QueueNames, j \in JobIds, list \in QUEUIFY_JOB_STATUS :
        InList(q, list, j) => (j \in DOMAIN store[q].jobs /\ store[q].jobs[j].status = list)

\* seq, with the elements that are not in S left out
RECURSIVE Restrict(_, _)
Restrict(seq, S) ==
    IF seq = <<>> THEN <<>>
    ELSE IF Head(seq) \in S THEN <<Head(seq)>> \o Restrict(Tail(seq), S)
    ELSE Restrict(Tail(seq), S)

IsPrefix(s, t) == Len(s) <= Len(t) /\ SubSeq(t, 1, Len(s)) = s

\* C13: the startup move empties RUNNING, returns the ids it moved, and appends them
\* to STALLED in their RUNNING order, behind what STALLED held; the recovered ids
\* are then fetched in the head-to-tail order the RUNNING list had, and the ids this
\* process holds in RUNNING are in the order it fetched them.
C13_MoveAllKeepsOrder ==
    /\ [][\A q \in QueueNames :
            (HeadIs(q, "moveExec") /\ out'.op = "startWorkers" /\ out'.q = q) =>
                /\ store'[q].lists[RUNNING] = <<>>
                /\ Head(inflight[q]).jobs = store[q].lists[RUNNING]
                /\ store'[q].lists[STALLED] = store[q].lists[STALLED] \o store[q].lists[RUNNING]
                /\ \A l \in {PENDING, COMPLETED, FAILED} : store'[q].lists[l] = store[q].lists[l]
         ]_vars
    /\ [](\A q \in QueueNames :
            /\ IsPrefix(Restrict(fetchLog[q], BootRunning(q)), boot[q].lists[RUNNING])
            /\ (q \in listeners =>
                  store[q].lists[RUNNING] = Restrict(fetchLog[q], Elems(store[q].lists[RUNNING]))))

\* two ids were moved and the second of them was fetched by another worker than the first
C13_Witness ==
    /\ Len(boot[Q1].lists[RUNNING]) = 2
    /\ Restrict(fetchLog[Q1], BootRunning(Q1)) = boot[Q1].lists[RUNNING]
    /\ \E e1, e2 \in execs : e1.w # e2.w

IdleWorkers(q) == {w \in DOMAIN Workers(q) : queues[q].workers[w].status = IDLE}

\* C14: when an enqueue succeeds on a queue that has a worker with status idle, the
\* enqueue emits a pool-request whose target is a worker with status idle; and the
\* target of every pool-request an enqueue emits has status idle when it is emitted.
C14_EnqueueWakesIdleWorker ==
    [][\A q \in QueueNames :
         (IsAddJobReply(q) /\ out'.err = NoReason) =>
             /\ IdleWorkers(q) # {} =>
                  \E i \in DOMAIN out'.emits :
                      out'.emits[i][1] = "job_pool_request" /\ out'.emits[i][3] \in IdleWorkers(q)
             /\ \A i \in DOMAIN out'.emits :
                  out'.emits[i][1] = "job_pool_request" => out'.emits[i][3] \in IdleWorkers(q)
      ]_vars

\* the status changes a record may make
StatusMoves ==
    {<<PENDING, RUNNING>>, <<RUNNING, COMPLETED>>, <<RUNNING, FAILED>>,
     <<RUNNING, STALLED>>, <<STALLED, RUNNING>>}

\* C15: a record is never deleted, and its status changes only from PENDING to
\* RUNNING, from RUNNING to COMPLETED, FAILED or STALLED, and from STALLED to
\* RUNNING: a COMPLETED or FAILED record keeps its status, none returns to PENDING.
C15_StatusMoves ==
    [][\A q \in QueueNames : \A j \in DOMAIN store[q].jobs :
         /\ j \in DOMAIN store'[q].jobs
         /\ \/ store'[q].jobs[j].status = store[q].jobs[j].status
            \/ <<store[q].jobs[j].status, store'[q].jobs[j].status>> \in StatusMoves
      ]_vars

\* C17: while a queue's isStalledJobsProcessingComplete is set, its STALLED list is
\* empty.
C17_FlagMeansNoStalled ==
    \A q \in DOMAIN queues :
        queues[q].isStalledJobsProcessingComplete => store[q].lists[STALLED] = <<>>

\* C18: between handler steps an idleWorkerId that is set names a registered worker
\* whose status is idle; a step that makes a worker busy leaves the cursor on a
\* worker that is idle after the step, or unset.
C18_CursorNamesIdleWorker ==
    /\ [](\A q \in DOMAIN queues :
            queues[q].idleWorkerId # NoWorker =>
                /\ queues[q].idleWorkerId \in DOMAIN queues[q].workers
                /\ queues[q].workers[queues[q].idleWorkerId].status = IDLE)
    /\ [][\A q \in DOMAIN queues : \A w \in DOMAIN queues[q].workers :
            (queues[q].workers[w].status = IDLE /\ queues'[q].workers[w].status = BUSY) =>
                /\ queues'[q].idleWorkerId # w
                /\ \/ queues'[q].idleWorkerId = NoWorker
                   \/ /\ queues'[q].idleWorkerId \in DOMAIN queues'[q].workers
                      /\ queues'[q].workers[queues'[q].idleWorkerId].status = IDLE
         ]_vars

\* the worker the cursor named became busy and the cursor moved to the other worker
C18_Witness ==
    /\ out.op = "onJobsRequest"
    /\ \E w \in DOMAIN Workers(Q1) :
           /\ queues[Q1].workers[w].status = BUSY
           /\ queues[Q1].idleWorkerId \notin {w, NoWorker}
           /\ \E e \in execs : e.w = w
    /\ \E j \in JobIds : Terminal(Q1, j)

\* C19: every worker_add event of a registered worker is handled where it is
\* emitted: the step that emits it also emits the worker's pool-request.
C19_WorkerAddHandled ==
    \A i \in DOMAIN out.emits :
        out.emits[i][1] = "worker_add" =>
            \E k \in DOMAIN out.emits :
                k > i /\ out.emits[k] = <<"job_pool_request", out.emits[i][2], out.emits[i][3]>>

\* C16: the exchange with a sandbox process ends once: the countdown of a batch is
\* never below zero, and the job of a sandbox process is pushed to the terminal
\* lists once (one of completeJob / failJob, once).
C16_SandboxExchangeOnce ==
    /\ \A cl \in DOMAIN remainingJobs : remainingJobs[cl] >= 0
    /\ \A p \in sandboxes :
           Count(store[p.q].lists[COMPLETED], p.job) + Count(store[p.q].lists[FAILED], p.job) <= 1

\* the jobs a routine of each process is running
Executing(j) == \E e \in execs : e.q = Q1 /\ e.job = j

PeerExecuting(j) == peer.pc = "run" /\ peer.job = j

\* C20: with two processes on one queue, a job that a process is executing is not
\* moved to STALLED by the other's startup move, no job is executed by both
\* processes at once, and no id is twice in a terminal list.
C20_StartupSparesLiveJobs ==
    \A j \in JobIds :
        /\ (Executing(j) \/ PeerExecuting(j)) => ~InList(Q1, STALLED, j)
        /\ ~(Executing(j) /\ PeerExecuting(j))
        /\ Count(store[Q1].lists[COMPLETED], j) <= 1
        /\ Count(store[Q1].lists[FAILED], j) <= 1

====
